---- MODULE Spec2Model ----
(***************************************************************************)
(* A model of DynamicInput (src/src/dynamicio.py): the polling input loop, *)
(* the key handlers, the completion fetch threads and the edit thread.     *)
(*                                                                         *)
(* Granularity.  One iteration of the input loop is split in two atomic    *)
(* steps, the debounce launch (line 93) and the handling of one key (lines *)
(* 102-142); a key is handled only when the launch condition is false, as  *)
(* the launch precedes the key poll in the iteration.  Background threads  *)
(* interleave with the loop and with each other between the statements of  *)
(* _process_completion and of _edit.  Time is a discrete clock: Tick lets  *)
(* one unit pass between two iterations.                                   *)
(***************************************************************************)
EXTENDS Integers, Sequences, FiniteSets, TLC

VARIABLES
    phase,            \* where the caller of input() is
    sessions,         \* calls of input() made on this object so far
    cfg,              \* arguments of the current input() call
    buffer,           \* self.buffer
    completion,       \* self.completion (CompletionPacket)
    exit,             \* self.exit
    fetchInProgress,  \* self.fetchInProgress
    called,           \* local `called` of input()
    difference,       \* cts - ts as the loop computes it now
    delay_buffer,     \* local `delay_buffer` of input(): its sum and length
    time_buffer,      \* local `time_buffer` of input(), a rational num/den
    nkeys,            \* keys read so far (bounds the exploration)
    ticks,            \* clock units passed so far (bounds the exploration)
    limits,           \* what this exploration may use (never changes)
    fetch,            \* the threads running _process_completion
    editTask,         \* the thread running _edit
    nedits,           \* edit() calls so far (bounds the exploration)
    rawTask,          \* the thread running call_to directly: its argument
    lastKey,          \* history: the kind of the key read last
    accepted,         \* history: buffer text when Enter was accepted
    acceptedAfter,    \* history: the kind of the key read before that Enter
    result,           \* value returned by input()
    error,            \* exception the last call of input() or edit() raised
    line,             \* the terminal: text on the input line after the prompt
    before,           \* history: buffer before the regular key read last
    tabTook           \* history: the Tab read last appended a completion

vars == <<phase, sessions, cfg, buffer, completion, exit, fetchInProgress,
          called, difference, delay_buffer, time_buffer, nkeys, ticks,
          limits, fetch, editTask, nedits, rawTask, lastKey, accepted,
          acceptedAfter, result, error, line, before, tabTook>>

(***************************************************************************)
(* Bounds of the exploration.                                              *)
(***************************************************************************)
MaxKeys == 7      \* keys read over the life of the object
MaxTicks == 2     \* clock units that pass over the life of the object
MaxBuf == 2       \* longest buffer

\* len(delay_buffer) > 5 in the launch condition
DelayWarmup == 5

\* indent: int = 4, the default of input()
Indent == 4

FetchIds == {"f1", "f2"}

\* The bind key of the sessions that configure one
BindKey == " "
Chars == {"a"}
Completions == {<<>>, <<"z">>}
EditTexts == {<<>>, <<"E">>}
\* A config_bind of two characters
LongBind == "ab"
NoText == <<"<none>">>


(***************************************************************************)
(* Pure helpers.                                                           *)
(***************************************************************************)
\* A slip of SliceFrom: buf[:n], the first n items
SliceUpTo(buf, n) ==
    IF n >= Len(buf) THEN buf ELSE SubSeq(buf, 1, n)

\* Python buf[n:] for n >= 0: the list without its first n items
SliceFrom(buf, n) ==
    IF n >= Len(buf) THEN <<>> ELSE SubSeq(buf, n + 1, Len(buf))

\* A slip of PopLast: the list without its first item
PopFirst(buf) == SubSeq(buf, 2, Len(buf))

\* Python list.pop() on a non-empty list: the list without its last item
PopLast(buf) == SubSeq(buf, 1, Len(buf) - 1)

\* n blank cells of the terminal line
Blanks(n) == [i \in 1..n |-> " "]

\* '\x1b[D\x1b[P': the cursor moves one cell left and the character under it
\* is deleted
DeleteLast(l) == IF l = <<>> THEN l ELSE SubSeq(l, 1, Len(l) - 1)

\* The cursor is put on column col and '\x1b[K' clears from there to the end
\* of the line; cells never written are blank
ClearFrom(l, col) ==
    IF col >= Len(l) THEN l \o Blanks(col - Len(l)) ELSE SubSeq(l, 1, col)

\* The texts a user callback may return for `text`.  "any" is an arbitrary
\* callback; "appl" is the callback that maps "appl" to "e".
Results(fn, text) ==
    IF fn = "appl"
    THEN {IF text = <<"a", "p", "p", "l">> THEN <<"e">> ELSE <<>>}
    ELSE Completions

\* CompletionPacket(completion, shade, bufferLen); the shade is a constant
\* style string and is left out
CompletionPacket(content, bufferLen) ==
    [content |-> content, bufferlenght |-> bufferLen, fresh |-> FALSE]

\* History: the buffer changed after the callback was handed its text
Outdated(c) == [c EXCEPT !.fresh = FALSE]

\* A slot with no thread in it
IdleFetch ==
    [pc |-> "idle", fn |-> "any", alias |-> TRUE, snap |-> <<>>,
     text |-> <<>>, dirty |-> FALSE, pastEnter |-> FALSE, shown |-> FALSE]

IdleEdit ==
    [pc |-> "idle", returnRange |-> 0, text |-> <<>>, buf0 |-> <<>>,
     out |-> <<>>, clean |-> TRUE, pos |-> 0]

\* The list object a fetch thread received as its `buffer` argument: the
\* object self.buffer still names, or the one it named before a rebinding
ArgBuffer(t) == IF t.alias THEN buffer ELSE t.snap

FreeSlots == {f \in limits.fetchers : fetch[f].pc = "idle"}

\* Thread(target=self._process_completion, args=(self.buffer, shade, call_to)).start()
StartFetch(fs, fn) ==
    LET f == CHOOSE g \in limits.fetchers : fs[g].pc = "idle"
    IN  [fs EXCEPT ![f] = [IdleFetch EXCEPT !.pc = "check", !.fn = fn]]

\* self.buffer is bound to a new list object: the threads that were handed
\* the old object keep it
Rebind(fs, old) ==
    [f \in FetchIds |->
        IF fs[f].pc \in {"check", "set", "call", "run"} /\ fs[f].alias
        THEN [fs[f] EXCEPT !.alias = FALSE, !.snap = old]
        ELSE fs[f]]

\* History: the buffer changed while these fetches were between the call of
\* the callback and the rendering of its result
MarkDirty(fs) ==
    [f \in FetchIds |->
        IF fs[f].pc \in {"run", "exit", "complete"}
        THEN [fs[f] EXCEPT !.dirty = TRUE]
        ELSE fs[f]]

\* History: Enter was accepted while these fetches had not produced a result
MarkPastEnter(fs) ==
    [f \in FetchIds |->
        IF fs[f].pc \in {"check", "set", "call", "run"}
        THEN [fs[f] EXCEPT !.pastEnter = TRUE]
        ELSE fs[f]]

EditMid == editTask.pc \in {"slice", "print", "extend"}

\* History: another thread touched the buffer or the terminal while _edit
\* was between its first and its last statement
Interfere(e) == IF e.pc \in {"slice", "print", "extend"}
                THEN [e EXCEPT !.clean = FALSE] ELSE e

(***************************************************************************)
(* The object after DynamicInput().                                        *)
(***************************************************************************)
DefaultCfg ==
    [allow_empty_input |-> TRUE, autocomplete |-> FALSE, output_bind |-> TRUE,
     inactivity_trigger |-> TRUE, config_bind |-> "none", call_to |-> "none"]

\* The arguments input() is called with.  call_to is "any" for an arbitrary
\* callback; the bind key, when there is one, is BindKey.
AllConfigs ==
    [allow_empty_input : BOOLEAN, autocomplete : BOOLEAN,
     output_bind : BOOLEAN, inactivity_trigger : BOOLEAN,
     config_bind : {"none", BindKey}, call_to : {"any"}]

\* input() called with a config_bind of two characters, or without call_to
LongBindConfigs == {[c EXCEPT !.config_bind = LongBind] : c \in AllConfigs}
NoCallbackConfigs == {[c EXCEPT !.call_to = "none"] : c \in AllConfigs}
InputConfigs == AllConfigs \cup LongBindConfigs \cup NoCallbackConfigs

AutoConfigs == {c \in AllConfigs : c.autocomplete /\ c.config_bind = BindKey}
RawConfigs == {c \in AllConfigs : ~c.autocomplete}

\* What one exploration may use: keys read, fetch threads alive at once,
\* edit() calls, input() calls and the arguments of input(), `indent` among
\* them (with indent=0 a Tab without a completion prints nothing), and
\* whether keys that fail to decode are among the keys read.
\*   keys:  the loop alone, with raw callbacks, for MaxKeys keys
\*   fetch: one fetch thread, for MaxKeys keys
\*   race:  two fetch threads
\*   edit:  an edit thread beside the loop
\*   editfetch: an edit thread beside the loop and a fetch thread
\*   again: input() called a second time on the object
\*   screen: the default indent, an edit thread beside the loop
\*   config: input() called with arguments the specification rejects
Profiles ==
    {[name |-> "keys", keys |-> MaxKeys, fetchers |-> {}, edits |-> 0,
      sessions |-> 1, buf |-> MaxBuf, indent |-> 0, undecoded |-> TRUE,
      configs |-> RawConfigs],
     [name |-> "fetch", keys |-> MaxKeys, fetchers |-> {"f1"}, edits |-> 0,
      sessions |-> 1, buf |-> MaxBuf, indent |-> 0, undecoded |-> FALSE,
      configs |-> {c \in AutoConfigs : c.inactivity_trigger /\ ~c.allow_empty_input
                                       /\ ~c.output_bind}],
     [name |-> "race", keys |-> 3, fetchers |-> {"f1", "f2"}, edits |-> 0,
      sessions |-> 1, buf |-> MaxBuf, indent |-> 0, undecoded |-> FALSE,
      configs |-> {c \in AutoConfigs : c.output_bind /\ c.allow_empty_input}],
     [name |-> "edit", keys |-> 3, fetchers |-> {}, edits |-> 1,
      sessions |-> 1, buf |-> MaxBuf, indent |-> 0, undecoded |-> FALSE,
      configs |-> {c \in RawConfigs : c.config_bind = BindKey /\ c.output_bind
                                      /\ c.inactivity_trigger}],
     [name |-> "editfetch", keys |-> 2, fetchers |-> {"f1"}, edits |-> 1,
      sessions |-> 1, buf |-> MaxBuf, indent |-> 0, undecoded |-> FALSE,
      configs |-> {c \in AutoConfigs : ~c.output_bind /\ c.allow_empty_input
                                       /\ c.inactivity_trigger}],
     [name |-> "again", keys |-> 3, fetchers |-> {"f1"}, edits |-> 0,
      sessions |-> 2, buf |-> MaxBuf, indent |-> 0, undecoded |-> FALSE,
      configs |-> {c \in AutoConfigs : ~c.output_bind /\ c.allow_empty_input
                                       /\ c.inactivity_trigger}],
     [name |-> "screen", keys |-> 3, fetchers |-> {}, edits |-> 1,
      sessions |-> 1, buf |-> MaxBuf, indent |-> Indent, undecoded |-> FALSE,
      configs |-> {c \in RawConfigs : c.config_bind = "none" /\ c.output_bind
                                      /\ c.inactivity_trigger
                                      /\ c.allow_empty_input}],
     [name |-> "config", keys |-> 3, fetchers |-> {}, edits |-> 0,
      sessions |-> 2, buf |-> MaxBuf, indent |-> 0, undecoded |-> FALSE,
      configs |-> {c \in LongBindConfigs \cup NoCallbackConfigs :
                      /\ c.inactivity_trigger /\ c.output_bind
                      /\ ~c.autocomplete}]}

Fresh ==
    /\ phase = "new"
    /\ sessions = 0
    /\ cfg = DefaultCfg
    /\ buffer = <<>>
    /\ completion = CompletionPacket(<<>>, 0)
    /\ exit = FALSE
    /\ fetchInProgress = FALSE
    /\ called = FALSE
    /\ difference = 0
    /\ delay_buffer = [sum |-> 0, len |-> 0]
    /\ time_buffer = [num |-> 0, den |-> 1]
    /\ nkeys = 0
    /\ ticks = 0
    /\ fetch = [f \in FetchIds |-> IdleFetch]
    /\ editTask = IdleEdit
    /\ nedits = 0
    /\ rawTask = NoText
    /\ lastKey = "none"
    /\ accepted = NoText
    /\ acceptedAfter = "none"
    /\ result = NoText
    /\ error = "none"
    /\ line = <<>>
    /\ before = NoText
    /\ tabTook = "no"

Init == Fresh /\ limits \in Profiles

\* The variables grouped by who writes them
budgetVars == <<limits, sessions, nedits, ticks, nkeys>>
loopVars == <<phase, cfg, called, difference, delay_buffer, time_buffer,
              lastKey, accepted, acceptedAfter, result, error>>
termVars == <<line, before, tabTook>>

(***************************************************************************)
(* input(): the statements before the loop (lines 73-86).  self.buffer is  *)
(* bound to a new list; self.completion and self.fetchInProgress are left  *)
(* as they are.  A config_bind of more than one character raises KeyError  *)
(* after the resets; a call_to of None is not looked at.                   *)
(***************************************************************************)
\* A slip of TooLong: only three characters or more are refused
TooLongOver2(b) == b # "none" /\ Len(b) > 2

\* config_bind is not None and len(config_bind) > 1
TooLong(b) == b # "none" /\ Len(b) > 1

StartInput(c) ==
    /\ phase \in {"new", "returned", "raised"}
    /\ c \in limits.configs
    /\ sessions < limits.sessions
    /\ sessions' = sessions + 1
    /\ cfg' = c
    /\ called' = FALSE
    /\ exit' = FALSE
    /\ delay_buffer' = [sum |-> 0, len |-> 0]
    /\ buffer' = <<>>
    /\ fetch' = Rebind(fetch, buffer)
    /\ completion' = Outdated(completion)
    /\ time_buffer' = [num |-> 0, den |-> 1]
    /\ difference' = 0
    /\ phase' = IF TooLong(c.config_bind) THEN "raised" ELSE "loop"
    /\ lastKey' = "none"
    /\ accepted' = NoText
    /\ acceptedAfter' = "none"
    /\ result' = NoText
    /\ error' = IF TooLong(c.config_bind) THEN "KeyError" ELSE "none"
    /\ line' = <<>>
    /\ before' = NoText
    /\ tabTook' = "no"
    /\ editTask' = Interfere(editTask)
    /\ UNCHANGED <<limits, nedits, ticks, nkeys, fetchInProgress, rawTask>>

(***************************************************************************)
(* The loop: time, the debounce launch, the key handlers.                  *)
(***************************************************************************)
\* difference > time_buffer, on rationals
IdleExceeded == difference * time_buffer.den > time_buffer.num

\* the condition of line 93
DebounceCond ==
    /\ delay_buffer.len > DelayWarmup
    /\ called
    /\ cfg.call_to # "none"
    /\ cfg.inactivity_trigger
    /\ IdleExceeded

\* sum(delay_buffer) / len(delay_buffer)
Average(d) == [num |-> d.sum, den |-> d.len]

\* One clock unit passes between two iterations of the loop
Tick ==
    /\ phase = "loop"
    /\ ticks < MaxTicks
    /\ ticks' = ticks + 1
    /\ difference' = difference + 1
    /\ UNCHANGED <<limits, sessions, nedits, nkeys, phase, cfg, called,
                   delay_buffer, time_buffer, lastKey, accepted, acceptedAfter,
                   result, error, termVars, buffer, completion, exit,
                   fetchInProgress, fetch, editTask, rawTask>>

\* A slip of DebounceFetch: `called` is left set
DebounceFetchKeepsMark ==
    /\ phase = "loop"
    /\ DebounceCond
    /\ cfg.autocomplete
    /\ FreeSlots # {}
    /\ time_buffer' = Average(delay_buffer)
    /\ fetch' = StartFetch(fetch, cfg.call_to)
    /\ UNCHANGED <<called, budgetVars, phase, cfg, difference, delay_buffer, lastKey,
                   accepted, acceptedAfter, result, error, termVars, buffer,
                   completion, exit, fetchInProgress, editTask, rawTask>>

\* lines 93-100 with autocomplete
DebounceFetch ==
    /\ phase = "loop"
    /\ DebounceCond
    /\ cfg.autocomplete
    /\ FreeSlots # {}
    /\ time_buffer' = Average(delay_buffer)
    /\ fetch' = StartFetch(fetch, cfg.call_to)
    /\ called' = FALSE
    /\ UNCHANGED <<budgetVars, phase, cfg, difference, delay_buffer, lastKey,
                   accepted, acceptedAfter, result, error, termVars, buffer,
                   completion, exit, fetchInProgress, editTask, rawTask>>

\* lines 93-100 without autocomplete: call_to runs in a thread of its own
DebounceRaw ==
    /\ phase = "loop"
    /\ DebounceCond
    /\ ~cfg.autocomplete
    /\ rawTask = NoText
    /\ time_buffer' = Average(delay_buffer)
    /\ rawTask' = buffer
    /\ called' = FALSE
    /\ editTask' = Interfere(editTask)
    /\ UNCHANGED <<budgetVars, phase, cfg, difference, delay_buffer, lastKey,
                   accepted, acceptedAfter, result, error, termVars, buffer,
                   completion, exit, fetchInProgress, fetch>>

\* msvcrt.kbhit() is true: a key of this kind is read and its delay recorded
\* (lines 102-110).  The launch of line 93 precedes it in the iteration.
KeyRead(kind) ==
    /\ phase = "loop"
    /\ nkeys < limits.keys
    /\ ~DebounceCond
    /\ nkeys' = nkeys + 1
    /\ delay_buffer' = [sum |-> delay_buffer.sum + difference,
                        len |-> delay_buffer.len + 1]
    /\ lastKey' = kind
    /\ tabTook' = IF kind # "tab" THEN "no"
                  ELSE IF completion.content # <<>> THEN "took"
                  ELSE IF tabTook = "took" THEN "again" ELSE "no"
    /\ editTask' = Interfere(editTask)
    /\ UNCHANGED <<limits, sessions, nedits, ticks, cfg, time_buffer, result,
                   error, fetchInProgress>>

\* key == config_bind and call_to is not None
IsBind(k) == k = cfg.config_bind /\ cfg.call_to # "none"

\* A slip of KeyBindFetch: ts is not set to cts
KeyBindFetchNoReset ==
    /\ KeyRead("bind")
    /\ IsBind(BindKey)
    /\ cfg.autocomplete
    /\ FreeSlots # {}
    /\ IF cfg.output_bind
       THEN /\ Len(buffer) < limits.buf
            /\ buffer' = Append(buffer, BindKey)
            /\ line' = Append(line, BindKey)
            /\ completion' = Outdated(completion)
            /\ fetch' = StartFetch(MarkDirty(fetch), cfg.call_to)
       ELSE /\ fetch' = StartFetch(fetch, cfg.call_to)
            /\ UNCHANGED <<buffer, line, completion>>
    /\ before' = NoText
    /\ UNCHANGED <<phase, called, accepted, acceptedAfter, exit, rawTask,
                   difference>>

\* lines 113-120
KeyBindFetch ==
    /\ KeyRead("bind")
    /\ IsBind(BindKey)
    /\ cfg.autocomplete
    /\ FreeSlots # {}
    /\ IF cfg.output_bind
       THEN /\ Len(buffer) < limits.buf
            /\ buffer' = Append(buffer, BindKey)
            /\ line' = Append(line, BindKey)
            /\ completion' = Outdated(completion)
            /\ fetch' = StartFetch(MarkDirty(fetch), cfg.call_to)
       ELSE /\ fetch' = StartFetch(fetch, cfg.call_to)
            /\ UNCHANGED <<buffer, line, completion>>
    /\ before' = NoText
    /\ difference' = 0
    /\ UNCHANGED <<phase, called, accepted, acceptedAfter, exit, rawTask>>

\* A slip of KeyBindRaw: the text for call_to is joined before the key is
\* appended
KeyBindRawEarly ==
    /\ KeyRead("bind")
    /\ IsBind(BindKey)
    /\ ~cfg.autocomplete
    /\ rawTask = NoText
    /\ IF cfg.output_bind
       THEN /\ Len(buffer) < limits.buf
            /\ buffer' = Append(buffer, BindKey)
            /\ line' = Append(line, BindKey)
            /\ completion' = Outdated(completion)
            /\ fetch' = MarkDirty(fetch)
       ELSE UNCHANGED <<buffer, line, completion, fetch>>
    /\ before' = NoText
    /\ rawTask' = buffer
    /\ difference' = 0
    /\ UNCHANGED <<phase, called, accepted, acceptedAfter, exit>>

\* lines 121-127
KeyBindRaw ==
    /\ KeyRead("bind")
    /\ IsBind(BindKey)
    /\ ~cfg.autocomplete
    /\ rawTask = NoText
    /\ IF cfg.output_bind
       THEN /\ Len(buffer) < limits.buf
            /\ buffer' = Append(buffer, BindKey)
            /\ line' = Append(line, BindKey)
            /\ completion' = Outdated(completion)
            /\ fetch' = MarkDirty(fetch)
       ELSE UNCHANGED <<buffer, line, completion, fetch>>
    /\ before' = NoText
    /\ rawTask' = buffer'
    /\ difference' = 0
    /\ UNCHANGED <<phase, called, accepted, acceptedAfter, exit>>

\* A slip of RejectEmpty: the buffer is not looked at
RejectAlways(allow, buf) == ~allow

\* not args.allow_empty_input and not self.buffer
RejectEmpty(allow, buf) == ~allow /\ buf = <<>>

\* A slip of KeyEnter: ts is set to cts on 'CONTINUE' too
KeyEnterResetsTimer ==
    IF RejectEmpty(cfg.allow_empty_input, buffer)
    THEN /\ KeyRead("refused")
         /\ before' = NoText
         /\ UNCHANGED <<phase, exit, accepted, acceptedAfter, fetch, buffer,
                        completion, called, rawTask, line>>
         /\ difference' = 0
    ELSE /\ KeyRead("enter")
         /\ exit' = TRUE
         /\ phase' = "break"
         /\ accepted' = buffer
         /\ acceptedAfter' = lastKey
         /\ fetch' = MarkPastEnter(fetch)
         /\ before' = NoText
         /\ UNCHANGED <<buffer, completion, called, difference, rawTask, line>>

\* _handle_enter, and lines 134-137 of the loop: on 'CONTINUE' the loop goes
\* on and ts is not updated, on 'EXIT' it breaks
KeyEnter ==
    IF RejectEmpty(cfg.allow_empty_input, buffer)
    THEN /\ KeyRead("refused")
         /\ before' = NoText
         /\ UNCHANGED <<phase, exit, accepted, acceptedAfter, fetch, buffer,
                        completion, called, difference, rawTask, line>>
    ELSE /\ KeyRead("enter")
         /\ exit' = TRUE
         /\ phase' = "break"
         /\ accepted' = buffer
         /\ acceptedAfter' = lastKey
         /\ fetch' = MarkPastEnter(fetch)
         /\ before' = NoText
         /\ UNCHANGED <<buffer, completion, called, difference, rawTask, line>>

\* A slip of KeyBackspace: True is returned without a character removed too
KeyBackspaceTrue ==
    /\ KeyRead("backspace")
    /\ IF buffer # <<>>
       THEN /\ buffer' = PopLast(buffer)
            /\ line' = DeleteLast(line)
            /\ completion' = Outdated(completion)
            /\ called' = TRUE
            /\ fetch' = MarkDirty(fetch)
       ELSE /\ called' = TRUE
            /\ UNCHANGED <<buffer, line, completion, fetch>>
    /\ before' = IF lastKey = "regular" THEN before ELSE NoText
    /\ difference' = 0
    /\ UNCHANGED <<phase, accepted, acceptedAfter, exit, rawTask>>

\* _handle_backspace; without a character to remove it returns None, which
\* the loop stores in `called` and reads as false
KeyBackspace ==
    /\ KeyRead("backspace")
    /\ IF buffer # <<>>
       THEN /\ buffer' = PopLast(buffer)
            /\ line' = DeleteLast(line)
            /\ completion' = Outdated(completion)
            /\ called' = TRUE
            /\ fetch' = MarkDirty(fetch)
       ELSE /\ called' = FALSE
            /\ UNCHANGED <<buffer, line, completion, fetch>>
    /\ before' = IF lastKey = "regular" THEN before ELSE NoText
    /\ difference' = 0
    /\ UNCHANGED <<phase, accepted, acceptedAfter, exit, rawTask>>

\* A slip of KeyTab: True is returned
KeyTabTrue ==
    /\ KeyRead("tab")
    /\ IF completion.content # <<>>
       THEN /\ Len(buffer) + Len(completion.content) <= limits.buf
            /\ buffer' = buffer \o completion.content
            /\ line' = line \o completion.content
            /\ completion' = [completion EXCEPT !.content = <<>>, !.fresh = FALSE]
            /\ fetch' = MarkDirty(fetch)
       ELSE /\ line' = line \o Blanks(limits.indent)
            /\ UNCHANGED <<buffer, completion, fetch>>
    /\ before' = NoText
    /\ called' = TRUE
    /\ difference' = 0
    /\ UNCHANGED <<phase, accepted, acceptedAfter, exit, rawTask>>

\* A slip of KeyTab: the cached completion is not emptied
KeyTabKeepsCache ==
    /\ KeyRead("tab")
    /\ IF completion.content # <<>>
       THEN /\ Len(buffer) + Len(completion.content) <= limits.buf
            /\ buffer' = buffer \o completion.content
            /\ line' = line \o completion.content
            /\ completion' = [completion EXCEPT !.fresh = FALSE]
            /\ fetch' = MarkDirty(fetch)
       ELSE /\ line' = line \o Blanks(limits.indent)
            /\ UNCHANGED <<buffer, completion, fetch>>
    /\ before' = NoText
    /\ called' = FALSE
    /\ difference' = 0
    /\ UNCHANGED <<phase, accepted, acceptedAfter, exit, rawTask>>

\* _handle_tab
KeyTab ==
    /\ KeyRead("tab")
    /\ IF completion.content # <<>>
       THEN /\ Len(buffer) + Len(completion.content) <= limits.buf
            /\ buffer' = buffer \o completion.content
            /\ line' = line \o completion.content
            /\ completion' = [completion EXCEPT !.content = <<>>, !.fresh = FALSE]
            /\ fetch' = MarkDirty(fetch)
       ELSE /\ line' = line \o Blanks(limits.indent)
            /\ UNCHANGED <<buffer, completion, fetch>>
    /\ before' = NoText
    /\ called' = FALSE
    /\ difference' = 0
    /\ UNCHANGED <<phase, accepted, acceptedAfter, exit, rawTask>>

\* _handle_regular
KeyRegular(k) ==
    /\ KeyRead("regular")
    /\ ~IsBind(k)
    /\ Len(buffer) < limits.buf
    /\ buffer' = Append(buffer, k)
    /\ line' = Append(line, k)
    /\ before' = buffer
    /\ completion' = Outdated(completion)
    /\ called' = TRUE
    /\ fetch' = MarkDirty(fetch)
    /\ difference' = 0
    /\ UNCHANGED <<phase, accepted, acceptedAfter, exit, rawTask>>

\* A slip of KeyUndecoded: the exception of the read leaves input()
KeyUndecodedRaises ==
    /\ KeyRead("undecoded")
    /\ limits.undecoded
    /\ phase' = "raised"
    /\ before' = NoText
    /\ UNCHANGED <<called, difference, accepted, acceptedAfter, exit, buffer,
                   line, completion, fetch, rawTask>>

\* lines 104-110 when msvcrt.getch().decode('utf-8') raises and the retry
\* with msvcrt.getwch() raises too: `continue`, with the delay recorded and
\* ts not updated.  (A retry that succeeds yields a key, handled as any key.)
KeyUndecoded ==
    /\ KeyRead("undecoded")
    /\ limits.undecoded
    /\ before' = NoText
    /\ UNCHANGED <<phase, called, difference, accepted, acceptedAfter, exit,
                   buffer, line, completion, fetch, rawTask>>

\* return ''.join(self.buffer), after the break
ReturnInput ==
    /\ phase = "break"
    /\ result' = buffer
    /\ phase' = "returned"
    /\ editTask' = Interfere(editTask)
    /\ UNCHANGED <<budgetVars, cfg, called, difference, delay_buffer,
                   time_buffer, lastKey, accepted, acceptedAfter, error,
                   termVars, buffer, completion, exit, fetchInProgress, fetch,
                   rawTask>>

\* call_to returns (or raises) in its own thread: nothing reads the outcome
RawReturn ==
    /\ rawTask # NoText
    /\ rawTask' = NoText
    /\ UNCHANGED <<budgetVars, loopVars, termVars, buffer, completion, exit,
                   fetchInProgress, fetch, editTask>>

(***************************************************************************)
(* _process_completion, one statement at a time.                           *)
(***************************************************************************)
\* if self.fetchInProgress: return
FetchCheck(f) ==
    /\ fetch[f].pc = "check"
    /\ fetch' = [fetch EXCEPT ![f] =
                    IF fetchInProgress THEN IdleFetch ELSE [@ EXCEPT !.pc = "set"]]
    /\ UNCHANGED <<budgetVars, loopVars, termVars, buffer, completion, exit,
                   fetchInProgress, editTask, rawTask>>

\* self.fetchInProgress = True
FetchSet(f) ==
    /\ fetch[f].pc = "set"
    /\ fetchInProgress' = TRUE
    /\ fetch' = [fetch EXCEPT ![f].pc = "call"]
    /\ UNCHANGED <<budgetVars, loopVars, termVars, buffer, completion, exit, editTask,
                   rawTask>>

\* line 57, up to the call: ''.join(buffer) is handed to call_to
FetchCall(f) ==
    /\ fetch[f].pc = "call"
    /\ fetch' = [fetch EXCEPT ![f] =
                    [@ EXCEPT !.pc = "run", !.text = ArgBuffer(fetch[f]),
                              !.dirty = FALSE]]
    /\ editTask' = Interfere(editTask)
    /\ UNCHANGED <<budgetVars, loopVars, termVars, buffer, completion, exit,
                   fetchInProgress, rawTask>>

\* The stamp of the packet: len(buffer), evaluated when call_to has returned
Stamp(t) == Len(ArgBuffer(t))

\* line 57, from the return of call_to: the packet is built and stored in
\* self.completion
FetchReturn(f) ==
    /\ fetch[f].pc = "run"
    /\ \E r \in Results(fetch[f].fn, fetch[f].text) :
          completion' = [CompletionPacket(r, Stamp(fetch[f]))
                            EXCEPT !.fresh = ~fetch[f].dirty]
    /\ fetch' = [fetch EXCEPT ![f] =
                    [@ EXCEPT !.pc = "exit", !.alias = TRUE, !.snap = <<>>,
                              !.text = <<>>]]
    /\ tabTook' = "no"
    /\ editTask' = Interfere(editTask)
    /\ UNCHANGED <<budgetVars, loopVars, line, before, buffer, exit,
                   fetchInProgress, rawTask>>

\* call_to raises: the thread ends at line 57
FetchRaise(f) ==
    /\ fetch[f].pc = "run"
    /\ fetch[f].fn = "any"
    /\ fetch' = [fetch EXCEPT ![f] = IdleFetch]
    /\ UNCHANGED <<budgetVars, loopVars, termVars, buffer, completion, exit,
                   fetchInProgress, editTask, rawTask>>

\* if not self.exit:
FetchExit(f) ==
    /\ fetch[f].pc = "exit"
    /\ fetch' = [fetch EXCEPT ![f].pc = IF exit THEN "clear" ELSE "complete"]
    /\ UNCHANGED <<budgetVars, loopVars, termVars, buffer, completion, exit,
                   fetchInProgress, editTask, rawTask>>

\* complete(s, buffer) of utils/completer.py returns early:
\* len(buffer) > s.bufferlenght
BufferGrew(s, buf) == Len(buf) > s.bufferlenght

\* complete(self.completion, self.buffer): returns early or renders
FetchComplete(f) ==
    /\ fetch[f].pc = "complete"
    /\ fetch' = [fetch EXCEPT ![f] =
                    [@ EXCEPT !.pc = "clear",
                              !.shown = ~BufferGrew(completion, buffer)]]
    /\ editTask' = Interfere(editTask)
    /\ UNCHANGED <<budgetVars, loopVars, termVars, buffer, completion, exit,
                   fetchInProgress, rawTask>>

\* self.fetchInProgress = False
FetchClear(f) ==
    /\ fetch[f].pc = "clear"
    /\ fetchInProgress' = FALSE
    /\ fetch' = [fetch EXCEPT ![f] = IdleFetch]
    /\ UNCHANGED <<budgetVars, loopVars, termVars, buffer, completion, exit, editTask,
                   rawTask>>

(***************************************************************************)
(* edit() and the thread running _edit.                                    *)
(***************************************************************************)
\* A slip of EmptyText: no text is refused
EmptyTextNever(t) == FALSE

\* not new_text
EmptyText(t) == t = <<>>

\* edit(returnRange, new_text, cache): ValueError for an empty new_text, else
\* the thread running _edit is started.  The cache is a snapshot of the cursor
\* taken at the call.
EditCall(r, t) ==
    /\ phase = "loop"
    /\ nedits < limits.edits
    /\ nedits' = nedits + 1
    /\ IF EmptyText(t)
       THEN /\ error' = "ValueError"
            /\ UNCHANGED editTask
       ELSE /\ editTask.pc \in {"idle", "done"}
            /\ Len(buffer) + Len(t) <= limits.buf + r
            /\ editTask' = [IdleEdit EXCEPT !.pc = "move", !.returnRange = r,
                                            !.text = t, !.pos = Len(line)]
            /\ error' = "none"
    /\ UNCHANGED <<limits, sessions, ticks, nkeys, phase, cfg, called,
                   difference, delay_buffer, time_buffer, lastKey, accepted,
                   acceptedAfter, result, termVars, buffer, completion, exit,
                   fetchInProgress, fetch, rawTask>>

\* lines 266-273: hide the cursor, go to the snapshot, move back and clear
EditMove ==
    /\ editTask.pc = "move"
    /\ editTask' = [editTask EXCEPT !.pc = "slice", !.buf0 = buffer]
    /\ line' = ClearFrom(line, IF editTask.pos > editTask.returnRange
                               THEN editTask.pos - editTask.returnRange ELSE 0)
    /\ UNCHANGED <<budgetVars, loopVars, before, tabTook, buffer, completion, exit,
                   fetchInProgress, fetch, rawTask>>

\* self.buffer = self.buffer[returnRange:]
EditSlice ==
    /\ editTask.pc = "slice"
    /\ buffer' = SliceFrom(buffer, editTask.returnRange)
    /\ fetch' = MarkDirty(Rebind(fetch, buffer))
    /\ completion' = Outdated(completion)
    /\ editTask' = [editTask EXCEPT !.pc = "print"]
    /\ before' = NoText
    /\ UNCHANGED <<budgetVars, loopVars, line, tabTook, exit, fetchInProgress,
                   rawTask>>

\* print(text, end='', flush=True)
EditPrint ==
    /\ editTask.pc = "print"
    /\ editTask' = [editTask EXCEPT !.pc = "extend"]
    /\ line' = line \o editTask.text
    /\ UNCHANGED <<budgetVars, loopVars, before, tabTook, buffer, completion, exit,
                   fetchInProgress, fetch, rawTask>>

\* self.buffer += list(text), then the cursor is shown again
EditExtend ==
    /\ editTask.pc = "extend"
    /\ buffer' = buffer \o editTask.text
    /\ fetch' = MarkDirty(fetch)
    /\ completion' = Outdated(completion)
    /\ editTask' = [editTask EXCEPT !.pc = "done", !.out = buffer']
    /\ before' = NoText
    /\ UNCHANGED <<budgetVars, loopVars, line, tabTook, exit, fetchInProgress,
                   rawTask>>

(***************************************************************************)
(* The specification: any session, any keys, any interleaving.             *)
(***************************************************************************)
FetchStep(f) ==
    \/ FetchCheck(f)
    \/ FetchSet(f)
    \/ FetchCall(f)
    \/ FetchReturn(f)
    \/ FetchRaise(f)
    \/ FetchExit(f)
    \/ FetchComplete(f)
    \/ FetchClear(f)

Next ==
    \/ \E c \in InputConfigs : StartInput(c)
    \/ Tick
    \/ DebounceFetch
    \/ DebounceRaw
    \/ KeyBindFetch
    \/ KeyBindRaw
    \/ KeyEnter
    \/ KeyBackspace
    \/ KeyTab
    \/ \E k \in Chars : KeyRegular(k)
    \/ KeyUndecoded
    \/ ReturnInput
    \/ RawReturn
    \/ \E f \in FetchIds : FetchStep(f)
    \/ \E r \in 0..(Len(buffer) + 1), t \in EditTexts : EditCall(r, t)
    \/ EditMove
    \/ EditSlice
    \/ EditPrint
    \/ EditExtend

Spec == Init /\ [][Next]_vars

(***************************************************************************)
(* Two scripted sessions.                                                  *)
(***************************************************************************)
ApplWord == <<"a", "p", "p", "l">>
AppleWord == <<"a", "p", "p", "l", "e">>
ExitWord == <<"e", "x", "i", "t">>
ExitText == <<"E", "X", "I", "T">>

\* The user types the next character of `word`
TypeWord(word) ==
    /\ Len(buffer) < Len(word)
    /\ buffer = SubSeq(word, 1, Len(buffer))
    /\ KeyRegular(word[Len(buffer) + 1])

\* Autocompletion and the inactivity trigger on, the callback mapping "appl"
\* to "e": the user types a, p, p, l, stays idle until the idle time exceeds
\* time_buffer, then presses Tab.  No launch condition holds on the way
\* (ApplNoLaunch), so no fetch thread ever exists in these sessions.
ApplConfigs ==
    {[c EXCEPT !.call_to = "appl"] :
        c \in {d \in AllConfigs : d.autocomplete /\ d.inactivity_trigger}}

ApplProfile ==
    [name |-> "appl", keys |-> 5, fetchers |-> {"f1"}, edits |-> 0,
     sessions |-> 1, buf |-> 5, indent |-> Indent, undecoded |-> FALSE,
     configs |-> ApplConfigs]

InitAppl == Fresh /\ limits = ApplProfile

NextAppl ==
    \/ \E c \in ApplConfigs : StartInput(c)
    \/ TypeWord(ApplWord)
    \/ Tick
    \/ (buffer = ApplWord /\ IdleExceeded /\ KeyTab)

SpecAppl == InitAppl /\ [][NextAppl]_vars

ApplNoLaunch == ~DebounceCond /\ \A f \in FetchIds : fetch[f].pc = "idle"

\* The buffer is "exit"; edit(4, "EXIT", cache) is called.  The user may type
\* on while the edit thread runs.
ExitProfile ==
    [name |-> "exit", keys |-> 5, fetchers |-> {}, edits |-> 1,
     sessions |-> 1, buf |-> 5, indent |-> Indent, undecoded |-> FALSE,
     configs |-> AllConfigs]

InitExit == Fresh /\ limits = ExitProfile

NextExit ==
    \/ \E c \in AllConfigs : StartInput(c)
    \/ TypeWord(ExitWord)
    \/ Tick
    \/ (buffer = ExitWord /\ EditCall(4, ExitText))
    \/ EditMove
    \/ EditSlice
    \/ EditPrint
    \/ EditExtend

SpecExit == InitExit /\ [][NextExit]_vars

\* Autocompletion with a bind key and the inactivity trigger, empty input
\* refused: five Enters on the empty buffer record the five delays the launch
\* condition asks for, then the user types, deletes and presses the bind key
\* while two fetch threads may be alive.
DebounceConfigs ==
    {c \in AutoConfigs : /\ c.inactivity_trigger /\ ~c.allow_empty_input
                         /\ ~c.output_bind}

DebounceProfile ==
    [name |-> "debounce", keys |-> MaxKeys, fetchers |-> {"f1", "f2"},
     edits |-> 0, sessions |-> 1, buf |-> MaxBuf, indent |-> 0,
     undecoded |-> FALSE, configs |-> DebounceConfigs]

InitDebounce == Fresh /\ limits = DebounceProfile

NextDebounce ==
    \/ \E c \in DebounceConfigs : StartInput(c)
    \/ (nkeys < DelayWarmup /\ KeyEnter)
    \/ (nkeys >= DelayWarmup /\ KeyBindFetch)
    \/ (nkeys >= DelayWarmup /\ KeyBackspace)
    \/ (nkeys >= DelayWarmup /\ \E k \in Chars : KeyRegular(k))
    \/ Tick
    \/ DebounceFetch
    \/ \E f \in FetchIds : FetchStep(f)

SpecDebounce == InitDebounce /\ [][NextDebounce]_vars

(***************************************************************************)
(* Properties.                                                             *)
(***************************************************************************)
\* C1: at most one fetch thread is inside the user callback at any time.
FetchMutualExclusion ==
    Cardinality({f \in FetchIds : fetch[f].pc = "run"}) <= 1

\* C2: a completion is not rendered when the buffer was changed between the
\* call of the callback and the rendering.
StaleNeverRendered ==
    \A f \in FetchIds :
        (fetch[f].pc = "clear" /\ fetch[f].shown) => ~fetch[f].dirty

\* C3: a Tab that appends the cached completion does so only when the buffer
\* has not changed since the callback that produced it was handed its text.
TabAcceptsOnlyFresh ==
    [][(lastKey' = "tab" /\ nkeys' = nkeys + 1 /\ buffer' # buffer)
          => completion.fresh]_vars

\* C4: a completion that became ready after Enter was accepted is not
\* rendered.
NoRenderPastEnter ==
    \A f \in FetchIds :
        (fetch[f].pc = "clear" /\ fetch[f].shown) => ~fetch[f].pastEnter

\* Within the input() call whose Enter it is, the exit flag does suppress the
\* rendering: a fetch that finds self.exit set renders nothing.
ExitSuppressesInSession ==
    \A f \in FetchIds :
        (fetch[f].pc = "clear" /\ fetch[f].shown /\ fetch[f].pastEnter)
            => sessions > 1

\* C5: an edit that nothing interleaves with, on a buffer of at least
\* returnRange characters, leaves the buffer without its last returnRange
\* characters, followed by new_text.
EditReplacesTail ==
    (/\ editTask.pc = "done"
     /\ editTask.clean
     /\ Len(editTask.buf0) >= editTask.returnRange)
        => editTask.out =
              SubSeq(editTask.buf0, 1, Len(editTask.buf0) - editTask.returnRange)
                  \o editTask.text

\* C6: edit(4, "EXIT") on the buffer "exit", with nothing interleaved, leaves
\* the buffer "EXIT".
ExitBecomesEXIT ==
    (/\ editTask.pc = "done"
     /\ editTask.clean
     /\ editTask.buf0 = ExitWord
     /\ editTask.returnRange = 4
     /\ editTask.text = ExitText)
        => editTask.out = ExitText

ExitEdited ==
    /\ editTask.pc = "done"
    /\ editTask.clean
    /\ editTask.buf0 = ExitWord
    /\ editTask.out = ExitText
    /\ buffer = ExitText

\* C7: between the first and the last statement of _edit no key handler and
\* no other thread reads or changes the buffer or writes to the terminal.
EditAtomic == EditMid => editTask.clean

\* C8: a, p, p, l typed, the idle time exceeded, Tab pressed: the buffer is
\* "apple".
ApplTabGivesApple == lastKey = "tab" => buffer = AppleWord

\* the edit thread has cut the buffer and not yet appended the new text
EditCut == editTask.pc \in {"print", "extend"}

\* C9: with allow_empty_input false, an Enter on an empty buffer leaves the
\* session running and the buffer empty; an Enter that follows a regular
\* character ends the loop (no edit thread being between its cut and its
\* append).
EnterRule ==
    [][(/\ lastKey' \in {"enter", "refused"}
        /\ nkeys' = nkeys + 1
        /\ ~cfg.allow_empty_input)
          => /\ buffer = <<>>
                  => (phase' = "loop" /\ ~exit' /\ buffer' = <<>>
                      /\ lastKey' = "refused")
             /\ (lastKey = "regular" /\ ~EditCut)
                  => (phase' = "break" /\ exit' /\ lastKey' = "enter")]_vars

EnterAfterTyping ==
    /\ phase = "break"
    /\ ~cfg.allow_empty_input
    /\ acceptedAfter = "regular"
    /\ exit

\* C10: input() returns the buffer contents of the moment Enter was accepted.
ReturnsAccepted == phase = "returned" => result = accepted

\* C11: with autocomplete off and output_bind on, the bind key appends that
\* key and nothing else to the buffer and starts one call of the callback on
\* the buffer text with the key in it; the handler touches nothing else of
\* the session, and the return of the callback changes nothing at all.
BindRawAppendsAndCalls ==
    [][/\ (/\ lastKey' = "bind"
           /\ nkeys' = nkeys + 1
           /\ ~cfg.autocomplete
           /\ cfg.output_bind)
             => /\ buffer' = Append(buffer, cfg.config_bind)
                /\ rawTask = NoText
                /\ rawTask' = buffer'
                /\ completion'.content = completion.content
                /\ \A f \in FetchIds : fetch'[f].pc = fetch[f].pc
                /\ UNCHANGED <<exit, phase, fetchInProgress, called>>
       /\ (rawTask # NoText /\ rawTask' = NoText)
             => UNCHANGED <<buffer, completion, exit, phase, fetchInProgress,
                            called, fetch, line, result, error>>]_vars

BindRawPending ==
    /\ lastKey = "bind"
    /\ ~cfg.autocomplete
    /\ cfg.output_bind
    /\ buffer = <<"a", BindKey>>
    /\ rawTask = buffer

\* C12: edit() with an empty new_text raises ValueError at the call: no edit
\* thread is ever started with an empty text, and the call that raises leaves
\* the edit thread, the buffer and the terminal as they were.
EmptyEditRaises ==
    [][nedits' = nedits + 1
          => /\ editTask'.pc = "move" => editTask'.text # <<>>
             /\ error' = "ValueError"
                  => UNCHANGED <<editTask, buffer, line, phase>>]_vars

EmptyEditRefused ==
    /\ error = "ValueError"
    /\ nedits > 0
    /\ editTask = IdleEdit
    /\ buffer # <<>>

\* C13: input() called with a config_bind of two characters raises KeyError
\* without entering the loop: the buffer is empty, no key is read and no
\* thread is started.
LongBindRejected ==
    [][(sessions' = sessions + 1 /\ cfg'.config_bind = LongBind)
          => /\ phase' = "raised"
             /\ error' = "KeyError"
             /\ buffer' = <<>>
             /\ nkeys' = nkeys
             /\ \A f \in FetchIds : fetch'[f].pc = fetch[f].pc
             /\ rawTask' = rawTask
             /\ editTask'.pc = editTask.pc]_vars

LongBindRaised ==
    /\ phase = "raised"
    /\ error = "KeyError"
    /\ cfg.config_bind = LongBind
    /\ buffer = <<>>
    /\ sessions = 1
    /\ nkeys = 0

\* C14: the key loop of input() never runs without a callback.
CallbackRequired == phase = "loop" => cfg.call_to # "none"

\* The text without its trailing blank cells
RECURSIVE Strip(_)
Strip(l) ==
    IF l # <<>> /\ l[Len(l)] = " " THEN Strip(SubSeq(l, 1, Len(l) - 1)) ELSE l

\* No key handler and no edit thread is at work
Quiet == phase = "loop" /\ editTask.pc \in {"idle", "done"}

\* C15: whenever no handler and no edit thread is at work, the terminal line
\* shows the buffer (blank cells at the end of the line show nothing).
LineShowsBuffer == Quiet => Strip(line) = Strip(buffer)

\* C16: a Tab read as the first key of a session appends nothing to the
\* buffer.
FirstTabAppendsNothing ==
    [][(lastKey = "none" /\ lastKey' = "tab") => buffer' = buffer]_vars

\* C17: a regular key followed directly by Backspace, no thread changing the
\* buffer in between, leaves the buffer as it was before the regular key.
RoundTrip == (lastKey = "backspace" /\ before # NoText) => buffer = before

RoundTripDone ==
    /\ lastKey = "backspace"
    /\ before = <<BindKey>>
    /\ buffer = before
    /\ phase = "loop"

\* C18: a result whose buffer changed after the callback was handed its text
\* is not stored in self.completion.
StaleNeverCached ==
    [][\A f \in FetchIds :
          (fetch[f].pc = "run" /\ fetch'[f].pc = "exit" /\ fetch[f].dirty)
             => completion' = completion]_vars

\* C19: the stamp stored in the packet is the length of the buffer the
\* callback was handed, taken before the callback ran.
StampTakenBeforeCall ==
    [][\A f \in FetchIds :
          (fetch[f].pc = "run" /\ fetch'[f].pc = "exit")
             => completion'.bufferlenght = Len(fetch[f].text)]_vars

\* C20: while fetchInProgress is set, a fetch thread that has set it and will
\* clear it is alive.
FlagHasOwner ==
    fetchInProgress
        => \E f \in FetchIds :
              fetch[f].pc \in {"call", "run", "exit", "complete", "clear"}

\* A fetch thread is started by this step
FetchLaunched ==
    \E f \in FetchIds : fetch[f].pc = "idle" /\ fetch'[f].pc = "check"

\* C22: the bind key starts a fetch thread in the step that reads it when
\* autocomplete is on, whatever the idle time, and with autocomplete on or
\* off it sets ts to the time of the key.
BindLaunchesAtOnce ==
    [][(lastKey' = "bind" /\ nkeys' = nkeys + 1)
          => /\ difference' = 0
             /\ cfg.autocomplete => FetchLaunched
             /\ ~cfg.autocomplete => (rawTask = NoText /\ rawTask' # NoText)]_vars

BindLaunched ==
    /\ lastKey = "bind"
    /\ cfg.autocomplete
    /\ fetch["f1"].pc = "check"
    /\ delay_buffer = [sum |-> 1, len |-> 1]
    /\ difference = 0

\* C24: Backspace on a non-empty buffer removes the last character and
\* nothing else and returns True; on an empty buffer it leaves the buffer
\* alone and what it returns is false.
BackspaceRule ==
    [][(lastKey' = "backspace" /\ nkeys' = nkeys + 1)
          => IF buffer # <<>>
             THEN /\ buffer' = SubSeq(buffer, 1, Len(buffer) - 1)
                  /\ called'
             ELSE /\ buffer' = <<>>
                  /\ ~called']_vars

BackspaceOnEmpty ==
    /\ lastKey = "backspace"
    /\ before = NoText
    /\ buffer = <<>>
    /\ ~called
    /\ delay_buffer.len = 1

\* C25: Tab without a cached completion leaves the buffer alone, and after
\* any Tab `called` is false, so the launch condition of the loop is false.
TabReportsUnchanged ==
    [][(lastKey' = "tab" /\ nkeys' = nkeys + 1)
          => /\ completion.content = <<>> => buffer' = buffer
             /\ ~called'
             /\ ~DebounceCond']_vars

TabLaunchesNothing ==
    /\ lastKey = "tab"
    /\ ~called
    /\ delay_buffer.len > DelayWarmup
    /\ cfg.inactivity_trigger
    /\ cfg.call_to # "none"
    /\ IdleExceeded
    /\ phase = "loop"

\* The loop launches a fetch thread or a raw callback by this step
DebounceLaunched ==
    /\ nkeys' = nkeys
    /\ FetchLaunched \/ (rawTask = NoText /\ rawTask' # NoText)

\* C27: a launch by the loop finds `called` set and clears it, and within a
\* session only a regular key or a Backspace that changes the buffer sets it
\* again.
OneLaunchPerBurst ==
    [][/\ DebounceLaunched => (called /\ ~called')
       /\ (~called /\ called' /\ sessions' = sessions)
             => /\ nkeys' = nkeys + 1
                /\ lastKey' \in {"regular", "backspace"}
                /\ buffer' # buffer]_vars

LaunchedOnce ==
    /\ lastKey = "regular"
    /\ ~called
    /\ fetch["f1"].pc = "check"
    /\ delay_buffer.len > DelayWarmup
    /\ cfg.inactivity_trigger
    /\ IdleExceeded
    /\ phase = "loop"

\* C28: an Enter refused on an empty buffer changes neither the buffer, the
\* exit flag, the cached completion, `called`, ts nor time_buffer, and a
\* launch whose other conditions held still has them.
RefusedEnterChangesNothing ==
    [][(lastKey' = "refused" /\ nkeys' = nkeys + 1)
          => /\ UNCHANGED <<buffer, exit, completion, called, difference,
                            time_buffer, phase, fetch, fetchInProgress, line>>
             /\ delay_buffer.len > DelayWarmup
                  => delay_buffer'.len > DelayWarmup]_vars

RefusedWhilePending ==
    /\ lastKey = "refused"
    /\ called
    /\ buffer = <<>>
    /\ cfg.inactivity_trigger
    /\ delay_buffer.len > DelayWarmup
    /\ phase = "loop"

\* C26: a key whose two reads both fail to decode leaves the loop running,
\* raises nothing to the caller of input() and changes neither the buffer
\* nor anything else of the session but the record of its delay.
UndecodedKeySkipped ==
    [][(lastKey' = "undecoded" /\ nkeys' = nkeys + 1)
          => /\ phase' = "loop"
             /\ UNCHANGED <<buffer, exit, error, result, called, difference,
                            completion, line, fetch, fetchInProgress>>]_vars

UndecodedSkipped ==
    /\ lastKey = "undecoded"
    /\ phase = "loop"
    /\ error = "none"
    /\ buffer = <<"a">>
    /\ called

DebounceNeedsAllFour ==
    [][(FetchLaunched /\ nkeys' = nkeys)
          => /\ IdleExceeded
             /\ cfg.inactivity_trigger
             /\ called
             /\ ~fetchInProgress]_vars

\* The three conditions the loop does test hold at every launch
DebounceNeedsThree ==
    [][(FetchLaunched /\ nkeys' = nkeys)
          => /\ IdleExceeded
             /\ cfg.inactivity_trigger
             /\ called]_vars

====
